---------------------------- MODULE Spec2Model ----------------------------
(***************************************************************************)
(* Model of ucsm_apis/admin/auth.py: the authentication-management facade  *)
(* over a UCS session handle.                                              *)
(*                                                                         *)
(* The remote object tree is a map from distinguished names (dn) to        *)
(* managed objects.  The session handle holds that tree, a commit buffer   *)
(* of staged adds / updates / removes, and, for the purpose of checking    *)
(* call-order properties, the log of the calls the current operation made  *)
(* on it.  Every public function of auth.py is one action: the module is   *)
(* synchronous and single threaded, so a call runs to its return or to the *)
(* exception leaving it before anything else happens.                      *)
(*                                                                         *)
(* Python values: a string is a string; None is the absence of a key in a  *)
(* keyword map (a function from property names to values); a managed       *)
(* object is a record [class, dn, props]; an exception is a record         *)
(* [type, operation, error].                                               *)
(***************************************************************************)
EXTENDS Integers, Sequences, FiniteSets, TLC

VARIABLES
    store,      \* remote object tree: dn -> managed object or NoMo
    pending,    \* the handle's commit buffer: sequence of staged entries
    calls,      \* calls made on the handle by the last operation, in order
    op,         \* the last operation: [name, args]
    fault,      \* which handle call of the last operation was made to raise
    result,     \* outcome of the last operation: [exc, ret]
    pre,        \* the handle's store and commit buffer before the last operation
    nops        \* number of operations run so far

vars == <<store, pending, calls, op, fault, result, pre, nops>>

(***************************************************************************)
(* Bounds of the model.                                                    *)
(***************************************************************************)
MaxOps == 2

Names == {"d1", "d2"}

(***************************************************************************)
(* Python values.                                                          *)
(***************************************************************************)
EmptyMap == [k \in {} |-> ""]

NoMo == [class |-> "None", dn |-> "", props |-> EmptyMap]

NoExc == [type |-> "None", operation |-> "", error |-> ""]

\* An error raised by the handle itself (transport failure, or the remote
\* rejecting the configuration); it is not a UcsOperationError.
UcsException == [type |-> "UcsException", operation |-> "", error |-> "handle"]

UcsOperationError(operation, error) ==
    [type |-> "UcsOperationError", operation |-> operation, error |-> error]

\* A Python default parameter: the argument when given, else the default.
Arg(args, key, default) == IF key \in DOMAIN args THEN args[key] ELSE default

\* The keyword arguments that bind to no named parameter: **kwargs.
Kwargs(args, named) == [k \in (DOMAIN args) \ named |-> args[k]]

\* The named keyword arguments that are not None.
Given(args, named) == [k \in (DOMAIN args) \cap named |-> args[k]]

(***************************************************************************)
(* Distinguished names.                                                    *)
(***************************************************************************)
_auth_realm_dn == "sys/auth-realm"

\* dn of a managed object made with parent_mo_or_dn: parent dn + "/" + rn.
ChildDn(parent_dn, rn) == parent_dn \o "/" \o rn

DomainDn(name) == _auth_realm_dn \o "/domain-" \o name

DomainAuthDn(name) == ChildDn(DomainDn(name), "domain-auth")

AuthRealmDn == ChildDn("sys", "auth-realm")

DefaultAuthDn == ChildDn(_auth_realm_dn, "default-auth")

ConsoleAuthDn == ChildDn(_auth_realm_dn, "console-auth")

NativeDns == {AuthRealmDn, DefaultAuthDn, ConsoleAuthDn}

AllDns == {DomainDn(n) : n \in Names} \cup {DomainAuthDn(n) : n \in Names}
          \cup NativeDns

\* The objects the remote removes together with the object at dn.
Subtree(dn) == {dn} \cup {DomainAuthDn(n) : n \in {m \in Names : DomainDn(m) = dn}}

(***************************************************************************)
(* Managed objects.                                                        *)
(***************************************************************************)
Mo(class, dn, props) == [class |-> class, dn |-> dn, props |-> props]

\* ManagedObject.set_prop_multiple(**kwargs): the given properties are set
\* on the object, over what it held.
set_prop_multiple(mo, kwargs) == [mo EXCEPT !.props = kwargs @@ @]

\* ManagedObject.check_prop_match(**kwargs): every given property equals the
\* object's.
check_prop_match(mo, kwargs) ==
    \A k \in DOMAIN kwargs : k \in DOMAIN mo.props /\ mo.props[k] = kwargs[k]

\* The values the remote gives the properties a new object does not set.
RemoteDefaults(class) ==
    CASE class = "AaaDomain" ->
            [refresh_period |-> "600", session_timeout |-> "7200", descr |-> ""]
      [] class = "AaaDomainAuth" -> [realm |-> "local", use2_factor |-> "no"]
      [] class = "AaaAuthRealm" -> [def_login |-> "local"]
      [] OTHER -> [realm |-> "local"]

(***************************************************************************)
(* The session handle: [store, pending, calls].                            *)
(***************************************************************************)
Call(method, arg, raised) == [method |-> method, arg |-> arg, raised |-> raised]

Staged(status, mo, modify_present) ==
    [status |-> status, mo |-> mo, modify_present |-> modify_present]

\* Outcome of a step of an operation: the handle, the exception raised (or
\* NoExc) and the value returned.
Out(h, exc, ret) == [h |-> h, exc |-> exc, ret |-> ret]

Logged(h, method, arg, raised) ==
    [h EXCEPT !.calls = Append(@, Call(method, arg, raised))]

\* handle.query_dn(dn): the object at dn, or None.
query_dn(h, dn, flt) ==
    IF flt = "query_dn"
    THEN Out(Logged(h, "query_dn", dn, TRUE), UcsException, NoMo)
    ELSE Out(Logged(h, "query_dn", dn, FALSE), NoExc, h.store[dn])

\* handle.add_mo / set_mo / remove_mo: stage the object in the commit buffer.
Stage(h, method, status, mo, modify_present, flt) ==
    IF flt = "stage"
    THEN Out(Logged(h, method, mo.dn, TRUE), UcsException, NoMo)
    ELSE Out([Logged(h, method, mo.dn, FALSE)
                EXCEPT !.pending = Append(@, Staged(status, mo, modify_present))],
             NoExc, NoMo)

add_mo(h, mo, modify_present, flt) ==
    Stage(h, "add_mo", "created", mo, modify_present, flt)

set_mo(h, mo, flt) == Stage(h, "set_mo", "modified", mo, TRUE, flt)

remove_mo(h, mo, flt) == Stage(h, "remove_mo", "deleted", mo, TRUE, flt)

\* The remote refuses an add without modify_present of an object it holds.
Refused(st, e) ==
    e.status = "created" /\ ~e.modify_present /\ st[e.mo.dn].class # "None"

\* The remote tree after one staged entry is applied.
Apply(st, e) ==
    LET dn == e.mo.dn
    IN  IF e.status = "deleted"
        THEN [d \in DOMAIN st |-> IF d \in Subtree(dn) THEN NoMo ELSE st[d]]
        ELSE [st EXCEPT ![dn] =
                IF @.class = "None"
                THEN Mo(e.mo.class, dn, e.mo.props @@ RemoteDefaults(e.mo.class))
                ELSE Mo(e.mo.class, dn, e.mo.props @@ @.props)]

RECURSIVE ApplyAll(_, _)
ApplyAll(st, buf) ==
    IF buf = <<>> THEN st ELSE ApplyAll(Apply(st, Head(buf)), Tail(buf))

\* handle.commit(): the staged entries reach the remote as one
\* configuration, and the buffer is emptied; when the remote refuses or the
\* handle fails, the buffer is discarded and the error raised.
commit(h, flt) ==
    IF flt = "commit" \/ \E i \in 1..Len(h.pending) : Refused(h.store, h.pending[i])
    THEN Out([Logged(h, "commit", "", TRUE) EXCEPT !.pending = <<>>],
             UcsException, NoMo)
    ELSE Out([Logged(h, "commit", "", FALSE)
                EXCEPT !.store = ApplyAll(h.store, h.pending), !.pending = <<>>],
             NoExc, NoMo)


(***************************************************************************)
(* The functions of auth.py.  Each takes the handle, the keyword arguments *)
(* of the call and the handle call that is made to raise ("none" for a     *)
(* call on which the handle works), and gives Out(handle, exc, ret).       *)
(***************************************************************************)
auth_domain_get(h, name, caller, flt) ==
    LET dn == _auth_realm_dn \o "/domain-" \o name
        q  == query_dn(h, dn, flt)
    IN  IF q.exc # NoExc THEN q
        ELSE IF q.ret.class = "None"
        THEN Out(q.h,
                 UcsOperationError(caller,
                                   "Auth Domain '" \o dn \o "' does not exist"),
                 NoMo)
        ELSE Out(q.h, NoExc, q.ret)

\* AaaDomain(parent_mo_or_dn, name, refresh_period, session_timeout, descr)
AaaDomain(parent_dn, name, given) ==
    Mo("AaaDomain", ChildDn(parent_dn, "domain-" \o name),
       given @@ [name |-> name])

CreateNamed == {"name", "refresh_period", "session_timeout", "descr"}

\* The object auth_domain_create builds from its arguments.
CreateMo(args) ==
    set_prop_multiple(
        AaaDomain(_auth_realm_dn, args.name,
                  [refresh_period  |-> Arg(args, "refresh_period", "600"),
                   session_timeout |-> Arg(args, "session_timeout", "7200")]
                  @@ Given(args, {"descr"})),
        Kwargs(args, CreateNamed))

\* The body of auth_domain_create, with the modify_present it hands to add_mo.
CreateWith(h, args, flt, modify_present) ==
    LET mo  == CreateMo(args)
        a   == add_mo(h, mo, modify_present, flt)
        c   == commit(a.h, flt)
    IN  IF a.exc # NoExc THEN a
        ELSE IF c.exc # NoExc THEN c
        ELSE Out(c.h, NoExc, mo)

\* As auth_domain_create, adding without modify_present.
auth_domain_create_add_only(h, args, flt) == CreateWith(h, args, flt, FALSE)

\* As auth_domain_create, without the commit.
auth_domain_create_no_commit(h, args, flt) ==
    LET a == add_mo(h, CreateMo(args), TRUE, flt)
    IN  IF a.exc # NoExc THEN a ELSE Out(a.h, NoExc, CreateMo(args))

auth_domain_create(h, args, flt) == CreateWith(h, args, flt, TRUE)

\* As auth_domain_exists, without the comparison of the properties.
auth_domain_exists_any(h, args, flt) ==
    LET g == auth_domain_get(h, args.name, "auth_domain_exists", flt)
    IN  IF g.exc.type = "UcsOperationError" THEN Out(g.h, NoExc, <<FALSE, NoMo>>)
        ELSE IF g.exc # NoExc THEN g
        ELSE Out(g.h, NoExc, <<TRUE, g.ret>>)

\* As auth_domain_exists, submitting the object it fetched.
auth_domain_exists_commits(h, args, flt) ==
    LET g == auth_domain_get(h, args.name, "auth_domain_exists", flt)
        mo_exists == check_prop_match(g.ret, Kwargs(args, {"name"}))
        s == set_mo(g.h, g.ret, flt)
        c == commit(s.h, flt)
    IN  IF g.exc.type = "UcsOperationError" THEN Out(g.h, NoExc, <<FALSE, NoMo>>)
        ELSE IF g.exc # NoExc THEN g
        ELSE Out(c.h, NoExc, <<mo_exists, IF mo_exists THEN g.ret ELSE NoMo>>)

auth_domain_exists(h, args, flt) ==
    LET g == auth_domain_get(h, args.name, "auth_domain_exists", flt)
        mo_exists == check_prop_match(g.ret, Kwargs(args, {"name"}))
    IN  IF g.exc.type = "UcsOperationError" THEN Out(g.h, NoExc, <<FALSE, NoMo>>)
        ELSE IF g.exc # NoExc THEN g
        ELSE Out(g.h, NoExc, <<mo_exists, IF mo_exists THEN g.ret ELSE NoMo>>)

\* The body of auth_domain_modify, with the name it hands to auth_domain_get.
ModifyAs(h, args, flt, caller) ==
    LET g  == auth_domain_get(h, args.name, caller, flt)
        mo == set_prop_multiple(g.ret, Kwargs(args, {"name"}))
        s  == set_mo(g.h, mo, flt)
        c  == commit(s.h, flt)
    IN  IF g.exc # NoExc THEN g
        ELSE IF s.exc # NoExc THEN s
        ELSE IF c.exc # NoExc THEN c
        ELSE Out(c.h, NoExc, mo)

\* As auth_domain_modify, calling auth_domain_get without caller.
auth_domain_modify_default_caller(h, args, flt) ==
    ModifyAs(h, args, flt, "auth_domain_get")

\* As auth_domain_modify, creating the domain when it is missing.
auth_domain_modify_upsert(h, args, flt) ==
    LET g == auth_domain_get(h, args.name, "auth_domain_modify", flt)
    IN  IF g.exc.type = "UcsOperationError"
        THEN CreateWith(g.h, args, flt, TRUE)
        ELSE ModifyAs(h, args, flt, "auth_domain_modify")

auth_domain_modify(h, args, flt) == ModifyAs(h, args, flt, "auth_domain_modify")

\* As auth_domain_delete, without the commit.
auth_domain_delete_no_commit(h, args, flt) ==
    LET g == auth_domain_get(h, args.name, "auth_domain_delete", flt)
        r == remove_mo(g.h, g.ret, flt)
    IN  IF g.exc # NoExc THEN g
        ELSE IF r.exc # NoExc THEN r
        ELSE Out(r.h, NoExc, NoMo)

auth_domain_delete(h, args, flt) ==
    LET g == auth_domain_get(h, args.name, "auth_domain_delete", flt)
        r == remove_mo(g.h, g.ret, flt)
        c == commit(r.h, flt)
    IN  IF g.exc # NoExc THEN g
        ELSE IF r.exc # NoExc THEN r
        ELSE IF c.exc # NoExc THEN c
        ELSE Out(c.h, NoExc, NoMo)

\* AaaDomainAuth(parent_mo_or_dn=obj, realm, use2_factor, provider_group,
\* name, descr): a child of the object obj.
AaaDomainAuth(parent_mo, given) ==
    Mo("AaaDomainAuth", ChildDn(parent_mo.dn, "domain-auth"), given)

RealmNamed == {"domain_name", "realm", "use2_factor", "provider_group",
               "name", "descr"}

\* As Use2Factor, with the tuple in the other order.
Use2FactorSwapped(use2_factor) ==
    <<"yes", "no">>[(IF use2_factor THEN 1 ELSE 0) + 1]

\* ("no", "yes")[use2_factor]: a tuple indexed by a bool, False 0 and True 1.
Use2Factor(use2_factor) == <<"no", "yes">>[(IF use2_factor THEN 1 ELSE 0) + 1]

auth_domain_realm_configure(h, args, flt) ==
    LET g   == auth_domain_get(h, args.domain_name,
                               "auth_domain_realm_configure", flt)
        use2_factor == Use2Factor(Arg(args, "use2_factor", FALSE))
        mo0 == AaaDomainAuth(g.ret,
                             [realm       |-> Arg(args, "realm", "local"),
                              use2_factor |-> use2_factor]
                             @@ Given(args, {"provider_group", "name", "descr"}))
        mo  == set_prop_multiple(mo0, Kwargs(args, RealmNamed))
        s   == set_mo(g.h, mo, flt)
        c   == commit(s.h, flt)
    IN  IF g.exc # NoExc THEN g
        ELSE IF s.exc # NoExc THEN s
        ELSE IF c.exc # NoExc THEN c
        ELSE Out(c.h, NoExc, mo)

\* The shared body of the three native-auth functions: a fresh object of
\* the class under the parent, the arguments that are not None set on it,
\* staged as an update and committed.  No query is made.
NativeConfigure(h, class, dn, args, flt) ==
    LET mo == set_prop_multiple(Mo(class, dn, EmptyMap), args)
        s  == set_mo(h, mo, flt)
        c  == commit(s.h, flt)
    IN  IF s.exc # NoExc THEN s
        ELSE IF c.exc # NoExc THEN c
        ELSE Out(c.h, NoExc, mo)

native_auth_configure(h, args, flt) ==
    NativeConfigure(h, "AaaAuthRealm", ChildDn("sys", "auth-realm"), args, flt)

native_auth_default(h, args, flt) ==
    NativeConfigure(h, "AaaDefaultAuth", ChildDn(_auth_realm_dn, "default-auth"),
                    args, flt)

native_auth_console(h, args, flt) ==
    NativeConfigure(h, "AaaConsoleAuth", ChildDn(_auth_realm_dn, "console-auth"),
                    args, flt)

(***************************************************************************)
(* Inputs of the operations and the initial remote trees.                  *)
(***************************************************************************)
\* Keyword maps over the given keys: each key omitted or bound to one of
\* its values.
Maps(vals) ==
    UNION { [ks -> UNION {vals[k] : k \in ks}] : ks \in SUBSET DOMAIN vals }

KeywordMaps(vals) == { m \in Maps(vals) : \A k \in DOMAIN m : m[k] \in vals[k] }

CreateArgs ==
    KeywordMaps([refresh_period |-> {"300"}, session_timeout |-> {"1000"}])
    \cup {[descr |-> "lab"]}

DomainProps == {EmptyMap, [session_timeout |-> "1000"], [descr |-> "lab"]}

RealmArgs ==
    {EmptyMap, [use2_factor |-> TRUE], [use2_factor |-> FALSE],
     [realm |-> "ldap", use2_factor |-> TRUE]}

NativeArgs(key) == { EmptyMap, [k \in {key} |-> "ldap"] }

\* The calls tried: each keyword map on a handle that works, and the call
\* with no keyword on a handle of which one call raises.
Inputs(argset, faults) ==
    {<<a, "none">> : a \in argset} \cup {<<EmptyMap, f>> : f \in faults}

WithName(key, name, args) == [k \in {key} |-> name] @@ args

\* The class of the object a dn of the model names.
ClassOf(dn) ==
    CASE dn = AuthRealmDn -> "AaaAuthRealm"
      [] dn = DefaultAuthDn -> "AaaDefaultAuth"
      [] dn = ConsoleAuthDn -> "AaaConsoleAuth"
      [] dn \in {DomainAuthDn(n) : n \in Names} -> "AaaDomainAuth"
      [] OTHER -> "AaaDomain"

NameOf(dn) == CHOOSE n \in Names : dn \in {DomainDn(n), DomainAuthDn(n)}

\* What the remote holds of a domain at the start: nothing, the domain as
\* created with the defaults, a domain with other values, or that domain
\* with its realm binding.
InitKinds == {"absent", "default", "custom", "bound"}

InitMo(dn, kind) ==
    CASE ClassOf(dn) = "AaaDomain" /\ kind = "default" ->
            Mo("AaaDomain", dn,
               [name |-> NameOf(dn)] @@ RemoteDefaults("AaaDomain"))
      [] ClassOf(dn) = "AaaDomain" /\ kind \in {"custom", "bound"} ->
            Mo("AaaDomain", dn,
               [name |-> NameOf(dn), refresh_period |-> "300",
                session_timeout |-> "1000", descr |-> "lab"])
      [] ClassOf(dn) = "AaaDomainAuth" /\ kind = "bound" ->
            Mo("AaaDomainAuth", dn, [realm |-> "ldap", use2_factor |-> "yes"])
      [] OTHER -> NoMo

InitStores ==
    { [d \in AllDns |->
         IF d \in NativeDns
         THEN IF native THEN Mo(ClassOf(d), d, RemoteDefaults(ClassOf(d))) ELSE NoMo
         ELSE InitMo(d, kinds[NameOf(d)])] :
      kinds \in [Names -> InitKinds], native \in BOOLEAN }

(***************************************************************************)
(* The state machine: one action for each public function.                 *)
(***************************************************************************)
Handle == [store |-> store, pending |-> pending, calls |-> <<>>]

Invoke(name, args, flt, out) ==
    /\ nops < MaxOps
    /\ op' = [name |-> name, args |-> args]
    /\ fault' = flt
    /\ store' = out.h.store
    /\ pending' = out.h.pending
    /\ calls' = out.h.calls
    /\ result' = [exc |-> out.exc, ret |-> out.ret]
    /\ pre' = [store |-> store, pending |-> pending]
    /\ nops' = nops + 1

Init ==
    /\ store \in InitStores
    /\ pending = <<>>
    /\ calls = <<>>
    /\ op = [name |-> "", args |-> EmptyMap]
    /\ fault = "none"
    /\ result = [exc |-> NoExc, ret |-> NoMo]
    /\ pre = [store |-> store, pending |-> <<>>]
    /\ nops = 0

AuthDomainGet ==
    \E name \in Names, flt \in {"none", "query_dn"} :
        Invoke("auth_domain_get", [name |-> name], flt,
               auth_domain_get(Handle, name, "auth_domain_get", flt))

AuthDomainCreate ==
    \E name \in Names, in \in Inputs(CreateArgs, {"stage", "commit"}) :
        LET args == WithName("name", name, in[1])
        IN  Invoke("auth_domain_create", args, in[2],
                   auth_domain_create(Handle, args, in[2]))

AuthDomainExists ==
    \E name \in Names, in \in Inputs(DomainProps, {"query_dn"}) :
        LET args == WithName("name", name, in[1])
        IN  Invoke("auth_domain_exists", args, in[2],
                   auth_domain_exists(Handle, args, in[2]))

AuthDomainModify ==
    \E name \in Names, in \in Inputs(DomainProps, {"query_dn", "stage", "commit"}) :
        LET args == WithName("name", name, in[1])
        IN  Invoke("auth_domain_modify", args, in[2],
                   auth_domain_modify(Handle, args, in[2]))

AuthDomainDelete ==
    \E name \in Names, flt \in {"none", "query_dn", "stage", "commit"} :
        LET args == [name |-> name]
        IN  Invoke("auth_domain_delete", args, flt,
                   auth_domain_delete(Handle, args, flt))

AuthDomainRealmConfigure ==
    \E name \in Names, in \in Inputs(RealmArgs, {"query_dn", "stage", "commit"}) :
        LET args == WithName("domain_name", name, in[1])
        IN  Invoke("auth_domain_realm_configure", args, in[2],
                   auth_domain_realm_configure(Handle, args, in[2]))

NativeAuthConfigure ==
    \E in \in Inputs(NativeArgs("def_login"), {"commit"}) :
        Invoke("native_auth_configure", in[1], in[2],
               native_auth_configure(Handle, in[1], in[2]))

NativeAuthDefault ==
    \E in \in Inputs(NativeArgs("realm"), {"commit"}) :
        Invoke("native_auth_default", in[1], in[2],
               native_auth_default(Handle, in[1], in[2]))

NativeAuthConsole ==
    \E in \in Inputs(NativeArgs("realm"), {"commit"}) :
        Invoke("native_auth_console", in[1], in[2],
               native_auth_console(Handle, in[1], in[2]))

Next ==
    \/ AuthDomainGet
    \/ AuthDomainCreate
    \/ AuthDomainExists
    \/ AuthDomainModify
    \/ AuthDomainDelete
    \/ AuthDomainRealmConfigure
    \/ NativeAuthConfigure
    \/ NativeAuthDefault
    \/ NativeAuthConsole

Spec == Init /\ [][Next]_vars

(***************************************************************************)
(* Properties.  In each, the operation the state describes is the one that *)
(* has just run (op, fault, result, calls), pre is the handle before it,   *)
(* and a call that follows immediately is evaluated on the handle as the   *)
(* operation left it.                                                      *)
(***************************************************************************)
Returned(name) == op.name = name /\ result.exc = NoExc

\* The path of the domain record: sys/auth-realm/domain-<name>.
PathOf(name) == "sys/auth-realm/domain-" \o name

\* The domain name the last operation was called with.
Target == IF "domain_name" \in DOMAIN op.args THEN op.args.domain_name
          ELSE op.args.name

Present(st, dn) == st[dn].class # "None"

Methods(method) == {i \in 1..Len(calls) : calls[i].method = method}

Writes == Methods("add_mo") \cup Methods("set_mo") \cup Methods("remove_mo")

\* C1: after auth_domain_create(handle, n, refresh_period=r, session_timeout=s)
\* returns, auth_domain_get(handle, n) returns a record whose refresh_period
\* is r and session_timeout is s (600 and 7200 when omitted), whatever the
\* remote held at the path before; and on a handle that works create does
\* not fail, whether or not the record existed.
C1_CreateThenGet ==
    /\ Returned("auth_domain_create") =>
         LET g == auth_domain_get(Handle, op.args.name, "auth_domain_get", "none")
         IN  /\ g.exc = NoExc
             /\ g.ret.dn = PathOf(op.args.name)
             /\ g.ret.props.refresh_period =
                  (IF "refresh_period" \in DOMAIN op.args
                   THEN op.args.refresh_period ELSE "600")
             /\ g.ret.props.session_timeout =
                  (IF "session_timeout" \in DOMAIN op.args
                   THEN op.args.session_timeout ELSE "7200")
    /\ (op.name = "auth_domain_create" /\ fault = "none") => result.exc = NoExc

\* C1 witness: create with both arguments omitted returned over a record that
\* held other values.
C1_Witness ==
    /\ Returned("auth_domain_create")
    /\ DOMAIN op.args = {"name"}
    /\ Present(pre.store, PathOf(op.args.name))
    /\ pre.store[PathOf(op.args.name)].props.session_timeout = "1000"
    /\ pre.store[PathOf(op.args.name)].props.refresh_period = "300"

\* C2: create is idempotent: after auth_domain_create(handle, n,
\* session_timeout=v) has returned, the same call again returns too, leaves
\* the remote store as the first call left it, with exactly one domain
\* record named n, at sys/auth-realm/domain-n, whose session_timeout is v.
C2_CreateIdempotent ==
    Returned("auth_domain_create") =>
        LET second == auth_domain_create(Handle, op.args, "none")
            after  == second.h.store
            v      == IF "session_timeout" \in DOMAIN op.args
                      THEN op.args.session_timeout ELSE "7200"
        IN  /\ second.exc = NoExc
            /\ after = store
            /\ second.h.pending = <<>>
            /\ {d \in DOMAIN after : /\ after[d].class = "AaaDomain"
                                     /\ after[d].props.name = op.args.name}
                 = {PathOf(op.args.name)}
            /\ after[PathOf(op.args.name)].props.session_timeout = v

\* C2 witness: create with session_timeout given returned where no record was.
C2_Witness ==
    /\ Returned("auth_domain_create")
    /\ "session_timeout" \in DOMAIN op.args
    /\ ~Present(pre.store, PathOf(op.args.name))
    /\ Present(store, PathOf(op.args.name))

\* C3: with no record at sys/auth-realm/domain-n, modify, delete and
\* realm-configure fail, with the operation error when the lookup itself
\* completed; nothing was staged, commit was not called and the remote store
\* and the commit buffer are as before.
C3_MissingFailsClean ==
    ( /\ op.name \in {"auth_domain_modify", "auth_domain_delete",
                      "auth_domain_realm_configure"}
      /\ ~Present(pre.store, PathOf(Target)) )
    => /\ result.exc # NoExc
       /\ fault # "query_dn" => result.exc.type = "UcsOperationError"
       /\ Writes = {} /\ Methods("commit") = {}
       /\ store = pre.store
       /\ pending = pre.pending

\* C3 witness: realm-configure of a missing domain raised the operation error.
C3_Witness ==
    /\ op.name = "auth_domain_realm_configure"
    /\ ~Present(pre.store, PathOf(Target))
    /\ result.exc.type = "UcsOperationError"

\* C4: auth_domain_exists(handle, n, **expected) returns (True, record) if
\* and only if a record exists at sys/auth-realm/domain-n and every expected
\* property equals the record's; otherwise (False, None); it never raises
\* the not-found error.
C4_ExistsIffMatch ==
    op.name = "auth_domain_exists" =>
        LET rec      == pre.store[PathOf(op.args.name)]
            expected == DOMAIN op.args \ {"name"}
            match    == /\ rec.class # "None"
                        /\ \A k \in expected : rec.props[k] = op.args[k]
        IN  /\ result.exc.type # "UcsOperationError"
            /\ fault = "none" =>
                 /\ result.exc = NoExc
                 /\ result.ret = IF match THEN <<TRUE, rec>> ELSE <<FALSE, NoMo>>

\* C4 witness: the record exists and one expected property differs.
C4_Witness ==
    /\ Returned("auth_domain_exists")
    /\ Present(pre.store, PathOf(op.args.name))
    /\ "session_timeout" \in DOMAIN op.args
    /\ pre.store[PathOf(op.args.name)].props.session_timeout # op.args.session_timeout
    /\ result.ret = <<FALSE, NoMo>>

C6_Use2FactorYesNo ==
    Returned("auth_domain_realm_configure") =>
        LET want == IF "use2_factor" \in DOMAIN op.args /\ op.args.use2_factor
                    THEN "yes" ELSE "no"
            dn   == PathOf(op.args.domain_name) \o "/domain-auth"
        IN  /\ result.ret.props.use2_factor = want
            /\ store[dn].props.use2_factor = want

\* C6 witness: realm-configure with use2_factor=True returned.
C6_Witness ==
    /\ Returned("auth_domain_realm_configure")
    /\ "use2_factor" \in DOMAIN op.args
    /\ op.args.use2_factor
    /\ result.ret.props.use2_factor = "yes"

\* C7: an operation makes at most one query, at most one staged write and at
\* most one commit on the handle, in that order; a write that was staged is
\* followed by exactly one commit; a call that raised is the last call the
\* operation made.
C7_OneRoundTrip ==
    /\ Cardinality(Methods("query_dn")) <= 1
    /\ Cardinality(Writes) <= 1
    /\ Cardinality(Methods("commit")) <= 1
    /\ \A q \in Methods("query_dn") : \A w \in Writes \cup Methods("commit") : q < w
    /\ \A w \in Writes : \A c \in Methods("commit") : w < c
    /\ \A c \in Methods("commit") : Writes # {}
    /\ \A w \in Writes : ~calls[w].raised => Cardinality(Methods("commit")) = 1
    /\ \A i \in 1..Len(calls) : calls[i].raised => i = Len(calls)
    /\ Len(calls) = Cardinality(Methods("query_dn")) + Cardinality(Writes)
                    + Cardinality(Methods("commit"))

\* C7 witness: a query, a write and a commit that raised, and nothing after.
C7_Witness ==
    /\ Len(calls) = 3
    /\ calls[1].method = "query_dn"
    /\ calls[2].method = "set_mo"
    /\ calls[3].method = "commit"
    /\ calls[3].raised

\* C8: auth_domain_get and auth_domain_exists stage nothing and do not
\* commit; the remote store and the commit buffer are as before the call.
C8_ReadOnly ==
    op.name \in {"auth_domain_get", "auth_domain_exists"} =>
        /\ Writes = {}
        /\ Methods("commit") = {}
        /\ store = pre.store
        /\ pending = pre.pending

\* C8 witness: exists ran on a store that holds the record, and found it.
C8_Witness ==
    /\ Returned("auth_domain_exists")
    /\ Present(pre.store, PathOf(op.args.name))
    /\ result.ret[1]

\* C9: native_auth_configure, native_auth_default and native_auth_console
\* raise UcsOperationError when their target object is not in the remote
\* store (stated for a handle whose own calls do not fail).
C9_NativeRaisesWhenAbsent ==
    \A t \in {<<"native_auth_configure", "sys/auth-realm">>,
              <<"native_auth_default", "sys/auth-realm/default-auth">>,
              <<"native_auth_console", "sys/auth-realm/console-auth">>} :
        (op.name = t[1] /\ ~Present(pre.store, t[2]) /\ fault = "none")
        => result.exc.type = "UcsOperationError"

\* C10: a not-found error carries the name of the public operation that was
\* called and the resolved path sys/auth-realm/domain-<name>.
C10_ErrorNamesCaller ==
    result.exc.type = "UcsOperationError" =>
        /\ result.exc.operation = op.name
        /\ result.exc.error = "Auth Domain '" \o PathOf(Target) \o "' does not exist"
        /\ op.name \in {"auth_domain_get", "auth_domain_modify",
                        "auth_domain_delete", "auth_domain_realm_configure"}

\* C10 witness: modify of a missing domain raised the error labelled
\* auth_domain_modify.
C10_Witness ==
    /\ op.name = "auth_domain_modify"
    /\ result.exc.type = "UcsOperationError"
    /\ result.exc.operation = "auth_domain_modify"

=============================================================================
